---- MODULE Spec2Model ----
(***************************************************************************)
(* Browser-side page controllers of the SkyLink airline portal: one tab,   *)
(* its localStorage, the page currently loaded, the requests the page has  *)
(* in flight and the handlers that resume when a response arrives.         *)
(* Strings the code inspects (lengths, trimming, case) are sequences of    *)
(* one-character strings; opaque strings are TLA+ strings.                 *)
(***************************************************************************)
EXTENDS Integers, Sequences, FiniteSets, Bags, TLC

\* ------------------------------------------------------------------ bounds
MaxInFlight == 2      \* requests and file reads one page may have pending at once
MaxPwLen == 6         \* longest password typed
MaxNameLen == 2       \* longest full name / e-mail typed
MaxId == 1            \* aircraft ids 1..MaxId
MaxFleet == 2         \* longest aircraft list the server returns
MaxAlerts == 3        \* verification alerts one profile page is followed up to

\* -------------------------------------------------------- string helpers
Rep(c, n) == [i \in 1..n |-> c]

Strs(alphabet, n) == UNION {[1..k -> alphabet] : k \in 0..n}

RECURSIVE TrimStart(_)
TrimStart(s) == IF s # <<>> /\ Head(s) = " " THEN TrimStart(Tail(s)) ELSE s

RECURSIVE TrimEnd(_)
TrimEnd(s) ==
    IF s # <<>> /\ s[Len(s)] = " " THEN TrimEnd(SubSeq(s, 1, Len(s) - 1)) ELSE s

\* String.prototype.trim
Trim(s) == TrimEnd(TrimStart(s))

UpperCase ==
    <<"A", "B", "C", "D", "E", "F", "G", "H", "I", "J", "K", "L", "M",
      "N", "O", "P", "Q", "R", "S", "T", "U", "V", "W", "X", "Y", "Z">>

LowerCase ==
    <<"a", "b", "c", "d", "e", "f", "g", "h", "i", "j", "k", "l", "m",
      "n", "o", "p", "q", "r", "s", "t", "u", "v", "w", "x", "y", "z">>

LowerChar(c) ==
    IF \E k \in 1..26 : UpperCase[k] = c
    THEN LowerCase[CHOOSE k \in 1..26 : UpperCase[k] = c]
    ELSE c

\* String.prototype.toLowerCase
ToLowerCase(s) == [i \in 1..Len(s) |-> LowerChar(s[i])]

Digits == {"0", "1", "2", "3", "4", "5", "6", "7", "8", "9"}

DigitVal(c) ==
    CASE c = "0" -> 0 [] c = "1" -> 1 [] c = "2" -> 2 [] c = "3" -> 3 [] c = "4" -> 4
      [] c = "5" -> 5 [] c = "6" -> 6 [] c = "7" -> 7 [] c = "8" -> 8 [] c = "9" -> 9

\* JavaScript numbers the code computes with: an integer or NaN
Num(n) == [nan |-> FALSE, val |-> n]
NaN == [nan |-> TRUE, val |-> 0]

RECURSIVE DigitPrefix(_, _)
DigitPrefix(s, acc) ==
    IF s # <<>> /\ Head(s) \in Digits
    THEN DigitPrefix(Tail(s), 10 * acc + DigitVal(Head(s)))
    ELSE acc

\* parseInt(string): leading white space skipped, the leading digits read,
\* NaN when there is no leading digit
ParseInt(s) ==
    LET t == TrimStart(s)
    IN  IF t # <<>> /\ Head(t) \in Digits THEN Num(DigitPrefix(t, 0)) ELSE NaN

\* the expression  x || 0  on a number
OrZero(x) == IF x.nan \/ x.val = 0 THEN Num(0) ELSE x

\* the + operator on two numbers
Plus(x, y) == IF x.nan \/ y.nan THEN NaN ELSE Num(x.val + y.val)

\* String(number), the value an input element holds after  el.value = number
RECURSIVE NatToStr(_)
NatToStr(n) ==
    LET d == CHOOSE c \in Digits : DigitVal(c) = n % 10
    IN  IF n < 10 THEN <<d>> ELSE Append(NatToStr(n \div 10), d)

\* JSON.stringify of a number: NaN is serialised as null
JSONNumber(x) == [null |-> x.nan, val |-> IF x.nan THEN 0 ELSE x.val]

\* JSON.stringify / JSON.parse of the stored user object
JSONStringify(obj) == [json |-> obj]
JSONParse(text) == text.json

\* ------------------------------------------------------------ vocabulary
LoginPage == "/login"
RegisterPage == "/register"
ForgotPage == "/forgot-password"
ResetPage == "/reset-password"
DashboardPage == "/dashboard"
ProfilePage == "/profile"
AircraftPage == "/admin/aircraft"
LandingPage == "/"

Pages ==
    {LoginPage, RegisterPage, ForgotPage, ResetPage, DashboardPage, ProfilePage,
     AircraftPage, LandingPage}

NoNav == "none"

\* a value read from localStorage or from the URL: a string or null
Null == [has |-> FALSE, v |-> ""]
Some(x) == [has |-> TRUE, v |-> x]

Tokens == {"t1"}
ResetTokens == {"r1"}

\* caption of a page's submit control in the markup
InitialCaption == "Submit"

Idle == [disabled |-> FALSE, text |-> InitialCaption]

\* what the user may type
Passwords == {Rep("p", n) : n \in 0..MaxPwLen}
ConfirmInputs == Passwords \cup {Rep("q", n) : n \in 0..MaxPwLen}
NameInputs == Strs({" ", "a"}, MaxNameLen)
EmailInputs == Strs({" ", "e"}, MaxNameLen)
SeatInputs == {<<"x">>}
\* the seat-count fields the user edits by hand
TypedSeatFields == {"economy_seats"}
NumberInputs == {<<"N">>}

\* what the server may answer
Outcomes ==
    {[err |-> TRUE, status |-> 0, json |-> FALSE]}
    \cup {[err |-> FALSE, status |-> s, json |-> j] : s \in {200, 401, 500}, j \in BOOLEAN}

\* a success test that takes every answered request for a success
OkAnyAnswer(r) == ~r.err

\* response.ok
Ok(r) == ~r.err /\ r.status \in 200..299

\* full_name of the account as the server returns it at login
ServerNames == {<<"b", "b">>}

\* ----------------------------------------------------------------- state
VARIABLES
    ls,         \* localStorage: keys access_token and user
    page,       \* the page loaded in the tab
    nav,        \* window.location.href assigned and not yet committed
    token,      \* the page script's module-level  token
    btn,        \* the submit control of the page's form
    net,        \* requests of the page awaiting their response
    alertMsg,   \* the last alert shown by the page
    editingAircraftId,  \* aircraft page: id being edited, NullId when creating
    seats,              \* aircraft form: the three seat-count fields
    aircraft_number,    \* aircraft form: the aircraft_number field
    totalSeatsCalc,     \* aircraft form: the total shown next to the fields
    aircraftModal,      \* aircraft page: the modal's display and title
    loadingOverlay,     \* aircraft page: the loading overlay's display
    aircraftGrid,       \* aircraft page: content of the aircraftGrid element
    stats,              \* aircraft page: text of the three stat elements
    currentPhoto,       \* profile page: what the currentPhoto image shows
    photoPreview,       \* profile page: display of the photoPreview element
    reader,             \* profile page: FileReader loads not yet delivered
    verificationAlerts  \* profile page: e-mail verification alerts in the card

pageVars == <<page, nav, token, btn, net, alertMsg>>
fleetVars == <<aircraftGrid, stats>>
aircraftVars ==
    <<editingAircraftId, seats, aircraft_number, totalSeatsCalc, aircraftModal,
      loadingOverlay, fleetVars>>
photoVars == <<currentPhoto, photoPreview, reader>>
profileVars == <<photoVars, verificationAlerts>>
vars == <<ls, pageVars, aircraftVars, profileVars>>

NoAuth == [has |-> FALSE, bearer |-> Null]
Bearer(t) == [has |-> TRUE, bearer |-> t]

NoBody == [empty |-> TRUE]

Req(kind, method, url, auth, body, originalText) ==
    [kind |-> kind, method |-> method, url |-> url, auth |-> auth, body |-> body,
     originalText |-> originalText]

\* the pending requests form a bag: responses arrive in any order
Issue(pending, req) == pending (+) SetToBag({req})
Settle(pending, req) == pending (-) SetToBag({req})
InFlight == BagCardinality(net) + reader

NullId == 0

EmptySeats == [economy_seats |-> <<>>, business_seats |-> <<>>, first_class_seats |-> <<>>]

\* the 'user' key absent from localStorage
NoUser == [has |-> FALSE, v |-> JSONStringify([full_name |-> <<>>])]

StorageEmpty == [access_token |-> Null, user |-> NoUser]

\* a session teardown that forgets the 'user' key
RemoveSessionTokenOnly(store) == [store EXCEPT !.access_token = Null]

\* localStorage.removeItem('access_token'); localStorage.removeItem('user')
RemoveSession(store) == [store EXCEPT !.access_token = Null, !.user = NoUser]

\* the aircraftGrid element and the stat elements as the markup has them
GridMarkup == [kind |-> "markup", cards |-> <<>>]
StatsMarkup == [totalAircraft |-> <<"0">>, activeAircraft |-> <<"0">>, totalSeats |-> <<"0">>]

Init ==
    /\ ls = StorageEmpty
    /\ page = LandingPage
    /\ nav = NoNav
    /\ token = Null
    /\ btn = Idle
    /\ net = EmptyBag
    /\ alertMsg = ""
    /\ editingAircraftId = NullId
    /\ seats = EmptySeats
    /\ aircraft_number = [value |-> <<>>, disabled |-> FALSE]
    /\ totalSeatsCalc = Num(0)
    /\ aircraftModal = [display |-> "none", title |-> "Add New Aircraft"]
    /\ loadingOverlay = "none"
    /\ aircraftGrid = GridMarkup
    /\ stats = StatsMarkup
    /\ currentPhoto = "markup"
    /\ photoPreview = "markup"
    /\ reader = 0
    /\ verificationAlerts = 0

\* ------------------------------------------------------------- page load
ProtectedPages == {DashboardPage, ProfilePage, AircraftPage}

\* the session guard at the top of a page script: !token
GuardFails(p, t) == p \in ProtectedPages \cup {ResetPage} /\ ~t.has

\* requests the page script issues while it loads
LoadRequests(p, t) ==
    CASE p = DashboardPage ->
            SetToBag({Req("dashboard.loadProfile", "GET", "/api/profile", Bearer(t), NoBody, ""),
                      Req("loadActivityLogs", "GET", "/api/activity-logs", Bearer(t), NoBody, "")})
      [] p = ProfilePage ->
            SetToBag({Req("profile.loadProfile", "GET", "/api/profile", Bearer(t), NoBody, "")})
      [] p = AircraftPage ->
            SetToBag({Req("loadAircraft", "GET", "/flights/aircraft", NoAuth, NoBody, "")})
      [] OTHER -> EmptyBag

\* the document of page p is loaded and its script runs to the end;
\* urlToken is the token parameter of the URL (read by the reset page)
LoadPage(p, urlToken) ==
    LET t == CASE p \in ProtectedPages -> ls.access_token
               [] p = ResetPage -> urlToken
               [] OTHER -> Null
    IN  /\ page' = p
        /\ token' = t
        /\ nav' = IF ~GuardFails(p, t) THEN NoNav
                  ELSE IF p = ResetPage THEN ForgotPage ELSE LoginPage
        /\ alertMsg' = IF ~GuardFails(p, t) THEN ""
                       ELSE IF p = ResetPage THEN "Invalid reset link"
                       ELSE "Please login first!"
        /\ net' = LoadRequests(p, t)
        /\ btn' = Idle
        /\ editingAircraftId' = NullId
        /\ seats' = EmptySeats
        /\ aircraft_number' = [value |-> <<>>, disabled |-> FALSE]
        /\ totalSeatsCalc' = Num(0)
        /\ aircraftModal' = [display |-> "none", title |-> "Add New Aircraft"]
        /\ loadingOverlay' = "none"
        /\ aircraftGrid' = GridMarkup
        /\ stats' = StatsMarkup
        /\ currentPhoto' = "markup"
        /\ photoPreview' = "markup"
        /\ reader' = 0
        /\ verificationAlerts' = 0
        /\ UNCHANGED ls

\* the user opens a page by its address
Visit(p, urlToken) ==
    /\ nav = NoNav
    /\ LoadPage(p, urlToken)

\* a navigation started by  window.location.href = ...  replaces the page
Navigate ==
    /\ nav # NoNav
    /\ LoadPage(nav, Null)

\* -------------------------------------------------------------- helpers
CanSubmit(p) == page = p /\ ~btn.disabled /\ InFlight < MaxInFlight

Submitting(caption) == [disabled |-> TRUE, text |-> caption]

\* a restore that re-enables the control and leaves the caption as it is
RestoredKeepsCaption(originalText) == [disabled |-> FALSE, text |-> btn.text]

\* submitBtn.disabled = false; submitBtn.textContent = originalText
Restored(originalText) == [disabled |-> FALSE, text |-> originalText]

\* the handler awaiting request i resumes with outcome r
Awaiting(q, kind) == BagIn(q, net) /\ q.kind = kind

\* ------------------------------------------------------------ login page
\* !formData.email || !formData.password
LoginRejected(formData) == formData.email = <<>> \/ formData.password = <<>>

\* a login that stores the token and forgets the user object
StoreSessionTokenOnly(store, access_token, user) ==
    [store EXCEPT !.access_token = Some(access_token)]

\* localStorage.setItem of both session keys after a successful login
StoreSession(store, access_token, user) ==
    [store EXCEPT !.access_token = Some(access_token),
                  !.user = Some(JSONStringify(user))]

LoginSubmit(email, password) ==
    /\ CanSubmit(LoginPage)
    /\ LET formData == [email |-> Trim(email), password |-> password]
       IN  IF LoginRejected(formData)
           THEN /\ alertMsg' = "Please fill in all fields!"
                /\ UNCHANGED <<ls, page, nav, token, btn, net, aircraftVars, profileVars>>
           ELSE /\ btn' = Submitting("Logging in...")
                /\ net' = Issue(net, Req("login", "POST", "/api/login", NoAuth,
                                          formData, btn.text))
                /\ UNCHANGED <<ls, page, nav, token, alertMsg, aircraftVars, profileVars>>

LoginResponse(q, r, access_token, full_name) ==
    /\ Awaiting(q, "login")
    /\ net' = Settle(net, q)
    /\ IF r.err \/ ~r.json
       THEN /\ alertMsg' = "Network error"
            /\ btn' = Restored(q.originalText)
            /\ UNCHANGED <<ls, nav>>
       ELSE IF Ok(r)
       THEN /\ ls' = StoreSession(ls, access_token, [full_name |-> full_name])
            /\ alertMsg' = "Login successful!"
            /\ nav' = DashboardPage
            /\ UNCHANGED btn
       ELSE /\ alertMsg' = "Error: login"
            /\ btn' = Restored(q.originalText)
            /\ UNCHANGED <<ls, nav>>
    /\ UNCHANGED <<page, token, aircraftVars, profileVars>>

\* --------------------------------------------------------- register page
RegisterPasswordRejected(password) == Len(password) < 6

\* a name check that only refuses the empty name
RegisterNameRejectedEmptyOnly(full_name) == Len(full_name) < 1

RegisterNameRejected(full_name) == Len(full_name) < 2

RegisterSubmit(fullName, password) ==
    /\ CanSubmit(RegisterPage)
    /\ LET formData == [full_name |-> Trim(fullName), password |-> password]
       IN  IF RegisterPasswordRejected(formData.password)
           THEN /\ alertMsg' = "Password must be at least 6 characters long!"
                /\ UNCHANGED <<ls, page, nav, token, btn, net, aircraftVars, profileVars>>
           ELSE IF RegisterNameRejected(formData.full_name)
           THEN /\ alertMsg' = "Please enter a valid full name!"
                /\ UNCHANGED <<ls, page, nav, token, btn, net, aircraftVars, profileVars>>
           ELSE /\ btn' = Submitting("Creating Account...")
                /\ net' = Issue(net, Req("register", "POST", "/api/register", NoAuth,
                                          formData, btn.text))
                /\ UNCHANGED <<ls, page, nav, token, alertMsg, aircraftVars, profileVars>>

RegisterResponse(q, r) ==
    /\ Awaiting(q, "register")
    /\ net' = Settle(net, q)
    /\ IF r.err \/ ~r.json
       THEN /\ alertMsg' = "Network error"
            /\ btn' = Restored(q.originalText)
            /\ UNCHANGED nav
       ELSE IF Ok(r)
       THEN /\ alertMsg' = "Registration successful!"
            /\ nav' = LoginPage
            /\ UNCHANGED btn
       ELSE /\ alertMsg' = "Error: register"
            /\ btn' = Restored(q.originalText)
            /\ UNCHANGED nav
    /\ UNCHANGED <<ls, page, token, aircraftVars, profileVars>>

\* -------------------------------------------------- forgot-password page
\* !email
ForgotRejected(email) == email = <<>>

ForgotSubmit(emailInput) ==
    /\ CanSubmit(ForgotPage)
    /\ LET email == Trim(emailInput)
       IN  IF ForgotRejected(email)
           THEN /\ alertMsg' = "Please enter your email address!"
                /\ UNCHANGED <<ls, page, nav, token, btn, net, aircraftVars, profileVars>>
           ELSE /\ btn' = Submitting("Sending...")
                /\ net' = Issue(net, Req("forgot", "POST", "/api/forgot-password", NoAuth,
                                          [email |-> email], btn.text))
                /\ UNCHANGED <<ls, page, nav, token, alertMsg, aircraftVars, profileVars>>

\* a handler without the finally block: the control is restored on success only
ForgotResponseNoFinally(q, r) ==
    /\ Awaiting(q, "forgot")
    /\ net' = Settle(net, q)
    /\ alertMsg' = IF r.err \/ ~r.json THEN "Network error"
                   ELSE IF Ok(r) THEN "Reset link sent"
                   ELSE "Error: forgot"
    /\ btn' = IF ~r.err /\ r.json /\ Ok(r) THEN Restored(q.originalText) ELSE btn
    /\ UNCHANGED <<ls, page, nav, token, aircraftVars, profileVars>>

ForgotResponse(q, r) ==
    /\ Awaiting(q, "forgot")
    /\ net' = Settle(net, q)
    /\ alertMsg' = IF r.err \/ ~r.json THEN "Network error"
                   ELSE IF Ok(r) THEN "Reset link sent"
                   ELSE "Error: forgot"
    /\ btn' = Restored(q.originalText)
    /\ UNCHANGED <<ls, page, nav, token, aircraftVars, profileVars>>

\* --------------------------------------------------- reset-password page
ResetPasswordRejected(password) == Len(password) < 6

\* a comparison of the lengths instead of the values
ResetMismatchByLength(password, confirmPassword) == Len(password) # Len(confirmPassword)

\* password !== confirmPassword
ResetMismatch(password, confirmPassword) == password # confirmPassword

ResetSubmit(password, confirmPassword) ==
    /\ CanSubmit(ResetPage)
    /\ IF ResetPasswordRejected(password)
       THEN /\ alertMsg' = "Password must be at least 6 characters long!"
            /\ UNCHANGED <<ls, page, nav, token, btn, net, aircraftVars, profileVars>>
       ELSE IF ResetMismatch(password, confirmPassword)
       THEN /\ alertMsg' = "Passwords do not match!"
            /\ UNCHANGED <<ls, page, nav, token, btn, net, aircraftVars, profileVars>>
       ELSE /\ btn' = Submitting("Resetting...")
            /\ net' = Issue(net, Req("reset", "POST", "/api/reset-password", NoAuth,
                                      [token |-> token, new_password |-> password],
                                      btn.text))
            /\ UNCHANGED <<ls, page, nav, token, alertMsg, aircraftVars, profileVars>>

ResetResponse(q, r) ==
    /\ Awaiting(q, "reset")
    /\ net' = Settle(net, q)
    /\ IF r.err \/ ~r.json
       THEN /\ alertMsg' = "Network error"
            /\ btn' = Restored(q.originalText)
            /\ UNCHANGED nav
       ELSE IF Ok(r)
       THEN /\ alertMsg' = "Password reset"
            /\ nav' = LoginPage
            /\ UNCHANGED btn
       ELSE /\ alertMsg' = "Error: reset"
            /\ btn' = Restored(q.originalText)
            /\ UNCHANGED nav
    /\ UNCHANGED <<ls, page, token, aircraftVars, profileVars>>

\* ---------------------------------------------- dashboard / profile pages
SessionExpired ==
    /\ alertMsg' = "Session expired. Please login again."
    /\ ls' = RemoveSession(ls)
    /\ nav' = LoginPage

ProfileLoadRequest ==
    Req("profile.loadProfile", "GET", "/api/profile", Bearer(token), NoBody, "")

\* dashboard.js  loadProfile, resumed by its response
DashboardLoadProfileResponse(q, r) ==
    /\ Awaiting(q, "dashboard.loadProfile")
    /\ net' = Settle(net, q)
    /\ IF ~r.err /\ ~Ok(r) /\ r.status = 401
       THEN SessionExpired
       ELSE UNCHANGED <<ls, nav, alertMsg>>
    /\ UNCHANGED <<page, token, btn, aircraftVars, profileVars>>

\* dashboard.js  loadActivityLogs, resumed by its response
LoadActivityLogsResponse(q, r) ==
    /\ Awaiting(q, "loadActivityLogs")
    /\ net' = Settle(net, q)
    /\ UNCHANGED <<ls, page, nav, token, btn, alertMsg, aircraftVars, profileVars>>

\* the is_verified of the account: the accounts the whole portal is
\* explored with, and the accounts whose e-mail is still unverified
VerifiedAccounts == {TRUE}
UnverifiedAccounts == {FALSE}

\* profile.js  loadProfile, resumed by its response; profile_photo tells
\* whether the user object in the body has a profile_photo, is_verified is
\* its is_verified
ProfileLoadProfileResponse(q, r, profile_photo, is_verified) ==
    /\ Awaiting(q, "profile.loadProfile")
    /\ net' = Settle(net, q)
    /\ IF r.err
       THEN /\ alertMsg' = "Error loading profile data"
            /\ UNCHANGED <<ls, nav, currentPhoto, photoPreview, verificationAlerts>>
       ELSE IF Ok(r)
       THEN /\ alertMsg' = IF r.json THEN alertMsg ELSE "Error loading profile data"
            /\ IF r.json /\ profile_photo
               THEN currentPhoto' = "server" /\ photoPreview' = "block"
               ELSE UNCHANGED <<currentPhoto, photoPreview>>
            /\ verificationAlerts' = IF r.json /\ ~is_verified
                                     THEN verificationAlerts + 1
                                     ELSE verificationAlerts
            /\ UNCHANGED <<ls, nav>>
       ELSE IF r.status = 401
       THEN SessionExpired /\ UNCHANGED <<currentPhoto, photoPreview, verificationAlerts>>
       ELSE /\ alertMsg' = "Error loading profile data"
            /\ UNCHANGED <<ls, nav, currentPhoto, photoPreview, verificationAlerts>>
    /\ UNCHANGED <<page, token, btn, aircraftVars, reader>>

NoPassword == [has |-> FALSE, v |-> <<>>]

\* a length check that lets five characters through
ProfilePasswordRejectedOffByOne(password) == password # <<>> /\ Len(password) < 5

\* if (password) { if (password.length < 6) ... }
ProfilePasswordRejected(password) == password # <<>> /\ Len(password) < 6

\* updateData.full_name && updateData.full_name.length < 2
ProfileNameRejected(full_name) == full_name # <<>> /\ Len(full_name) < 2

ProfileSubmit(fullName, password) ==
    /\ CanSubmit(ProfilePage)
    /\ LET full_name == Trim(fullName)
           updateData == [full_name |-> full_name,
                          password |-> IF password # <<>>
                                       THEN [has |-> TRUE, v |-> password]
                                       ELSE NoPassword]
       IN  IF ProfilePasswordRejected(password)
           THEN /\ alertMsg' = "Password must be at least 6 characters long!"
                /\ UNCHANGED <<ls, page, nav, token, btn, net, aircraftVars, profileVars>>
           ELSE IF ProfileNameRejected(full_name)
           THEN /\ alertMsg' = "Please enter a valid full name!"
                /\ UNCHANGED <<ls, page, nav, token, btn, net, aircraftVars, profileVars>>
           ELSE /\ btn' = Submitting("Updating...")
                /\ net' = Issue(net, Req("profile.update", "PUT", "/api/profile",
                                          Bearer(token), updateData, btn.text))
                /\ UNCHANGED <<ls, page, nav, token, alertMsg, aircraftVars, profileVars>>

\* an update that writes the 'user' key even when it is absent
UpdatedUserAlwaysWrites(store, updateData) ==
    LET user == JSONParse(store.user.v)
        renamed == IF updateData.full_name # <<>>
                   THEN [user EXCEPT !.full_name = updateData.full_name]
                   ELSE user
    IN  [store EXCEPT !.user = Some(JSONStringify(renamed))]

\* the stored user after a successful update
UpdatedUser(store, updateData) ==
    IF store.user.has
    THEN LET user == JSONParse(store.user.v)
             renamed == IF updateData.full_name # <<>>
                        THEN [user EXCEPT !.full_name = updateData.full_name]
                        ELSE user
         IN  [store EXCEPT !.user = Some(JSONStringify(renamed))]
    ELSE store

ProfileUpdateResponse(q, r) ==
    /\ Awaiting(q, "profile.update")
    /\ IF r.err \/ ~r.json
       THEN /\ alertMsg' = "Network error"
            /\ net' = Settle(net, q)
            /\ UNCHANGED <<ls, nav>>
       ELSE IF Ok(r)
       THEN /\ alertMsg' = "Profile updated successfully!"
            /\ ls' = UpdatedUser(ls, q.body)
            /\ net' = Issue(Settle(net, q), ProfileLoadRequest)
            /\ UNCHANGED nav
       ELSE IF r.status = 401
       THEN /\ SessionExpired
            /\ net' = Settle(net, q)
       ELSE /\ alertMsg' = "Error: update"
            /\ net' = Settle(net, q)
            /\ UNCHANGED <<ls, nav>>
    /\ btn' = Restored(q.originalText)
    /\ UNCHANGED <<page, token, aircraftVars, profileVars>>

Files == {"none", "bad-type", "too-big", "image"}

\* the photoInput change handler up to its fetch: an accepted file is
\* handed to a FileReader for the preview and posted to the server
PhotoChange(file) ==
    /\ page = ProfilePage
    /\ InFlight + 1 < MaxInFlight
    /\ IF file = "none"
       THEN UNCHANGED <<alertMsg, net, reader>>
       ELSE IF file = "bad-type"
       THEN /\ alertMsg' = "Please upload a valid image file"
            /\ UNCHANGED <<net, reader>>
       ELSE IF file = "too-big"
       THEN /\ alertMsg' = "File size must be less than 5MB"
            /\ UNCHANGED <<net, reader>>
       ELSE /\ reader' = reader + 1
            /\ net' = Issue(net, Req("upload-photo", "POST", "/api/upload-photo",
                                      Bearer(token), [file |-> file], ""))
            /\ UNCHANGED alertMsg
    /\ UNCHANGED <<ls, page, nav, token, btn, aircraftVars, currentPhoto, photoPreview,
                   verificationAlerts>>

\* reader.onload: the preview of the selected file is shown
ReaderOnload ==
    /\ page = ProfilePage
    /\ reader > 0
    /\ reader' = reader - 1
    /\ currentPhoto' = "file"
    /\ photoPreview' = "block"
    /\ UNCHANGED <<ls, pageVars, aircraftVars, verificationAlerts>>

UploadPhotoResponse(q, r) ==
    /\ Awaiting(q, "upload-photo")
    /\ IF r.err \/ ~r.json
       THEN /\ alertMsg' = "Upload error"
            /\ net' = Issue(Settle(net, q), ProfileLoadRequest)
       ELSE IF Ok(r)
       THEN /\ alertMsg' = "Photo uploaded"
            /\ net' = Settle(net, q)
       ELSE /\ alertMsg' = "Error: upload"
            /\ net' = Issue(Settle(net, q), ProfileLoadRequest)
    /\ UNCHANGED <<ls, page, nav, token, btn, aircraftVars, profileVars>>

\* the deletePhotoBtn click handler
DeletePhoto(confirmed) ==
    /\ page = ProfilePage
    /\ InFlight < MaxInFlight
    /\ net' = IF confirmed
              THEN Issue(net, Req("delete-photo", "DELETE", "/api/delete-photo",
                                   Bearer(token), NoBody, ""))
              ELSE net
    /\ UNCHANGED <<ls, page, nav, token, btn, alertMsg, aircraftVars, profileVars>>

DeletePhotoResponse(q, r) ==
    /\ Awaiting(q, "delete-photo")
    /\ net' = Settle(net, q)
    /\ alertMsg' = IF r.err \/ ~r.json THEN "Error: delete threw"
                   ELSE IF Ok(r) THEN "Photo deleted"
                   ELSE "Error: delete"
    /\ currentPhoto' = IF ~r.err /\ r.json /\ Ok(r) THEN "placeholder" ELSE currentPhoto
    /\ UNCHANGED <<ls, page, nav, token, btn, aircraftVars, photoPreview, reader,
                   verificationAlerts>>

\* the logoutBtn click handler of the dashboard and profile pages
Logout(confirmed) ==
    /\ page \in {DashboardPage, ProfilePage}
    /\ InFlight < MaxInFlight
    /\ net' = IF confirmed
              THEN Issue(net, Req("logout", "POST", "/api/logout", Bearer(token),
                                   NoBody, ""))
              ELSE net
    /\ UNCHANGED <<ls, page, nav, token, btn, alertMsg, aircraftVars, profileVars>>

\* a logout that tears the session down only when the server accepted it
LogoutResponseOnSuccessOnly(q, r) ==
    /\ Awaiting(q, "logout")
    /\ net' = Settle(net, q)
    /\ IF Ok(r)
       THEN /\ ls' = RemoveSession(ls)
            /\ alertMsg' = "Logged out successfully!"
            /\ nav' = LandingPage
       ELSE /\ alertMsg' = "Logout error"
            /\ UNCHANGED <<ls, nav>>
    /\ UNCHANGED <<page, token, btn, aircraftVars, profileVars>>

\* the rest of the logoutBtn handler, resumed when the fetch settles
LogoutResponse(q, r) ==
    /\ Awaiting(q, "logout")
    /\ net' = Settle(net, q)
    /\ ls' = RemoveSession(ls)
    /\ alertMsg' = "Logged out successfully!"
    /\ nav' = LandingPage
    /\ UNCHANGED <<page, token, btn, aircraftVars, profileVars>>

\* ---------------------------------------------------- aircraft admin page
AircraftIds == 1..MaxId

statuses ==
    {<<"a", "c", "t", "i", "v", "e">>,
     <<"m", "a", "i", "n", "t", "e", "n", "a", "n", "c", "e">>,
     <<"r", "e", "t", "i", "r", "e", "d">>}

\* what prompt() may return: null when cancelled, else the text entered
PromptInputs ==
    {[cancelled |-> TRUE, text |-> <<>>]}
    \cup {[cancelled |-> FALSE, text |-> t] :
            t \in {<<>>,
                   <<"a", "c", "t", "i", "v", "e">>,
                   <<"A", "c", "t", "i", "v", "e">>,
                   <<"R", "E", "T", "I", "R", "E", "D">>,
                   <<"m", "a", "i", "n", "t", "e", "n", "a", "n", "c", "E">>,
                   <<" ", "a", "c", "t", "i", "v", "e">>,
                   <<"a", "c", "t", "i", "v">>,
                   <<"s", "o", "l", "d">>}}

\* the prompts answered while the admin also works on the form
QuickPrompts ==
    {s \in PromptInputs : s.cancelled \/ s.text = <<"R", "E", "T", "I", "R", "E", "D">>}

\* a record GET /flights/aircraft/{id} may return
AircraftRecords(id) ==
    {[id |-> id, aircraft_number |-> <<"S">> \o NatToStr(id), economy_seats |-> 3,
      business_seats |-> 0, first_class_seats |-> 3]}

\* the total calculateTotalSeats writes into totalSeatsCalc
CalculateTotalSeats(fields) ==
    LET economy == OrZero(ParseInt(fields.economy_seats))
        business == OrZero(ParseInt(fields.business_seats))
        first == OrZero(ParseInt(fields.first_class_seats))
    IN  Plus(Plus(economy, business), first)

LoadAircraftRequest == Req("loadAircraft", "GET", "/flights/aircraft", NoAuth, NoBody, "")

Active == <<"a", "c", "t", "i", "v", "e">>
Maintenance == <<"m", "a", "i", "n", "t", "e", "n", "a", "n", "c", "e">>

\* the lists GET /flights/aircraft may return: up to n records with ids
\* 1..n, each of one of the given kinds (a status and a total_seats)
Fleets(n, kinds) ==
    UNION {{[i \in 1..k |-> [id |-> i, status |-> f[i].status,
                              total_seats |-> f[i].total_seats]] :
               f \in [1..k -> kinds]} : k \in 0..n}

\* lists the page receives while the admin works on it
ListedAircraft == Fleets(MaxId, {[status |-> Active, total_seats |-> 6]})

FleetIds == 1..MaxFleet

\* lists the page is rendered from
FleetLists ==
    Fleets(MaxFleet, {[status |-> Active, total_seats |-> 6],
                      [status |-> Maintenance, total_seats |-> 1200]})

\* the card the template renders for record a
Card(a) == [id |-> a.id, status |-> a.status, total_seats |-> a.total_seats]

EmptyState == [kind |-> "empty-state", cards |-> <<>>]
ErrorFragment == [kind |-> "error", cards |-> <<>>]

\* a renderer without the empty-list branch
DisplayAircraftNoEmptyState(aircraft) ==
    [kind |-> "cards", cards |-> [i \in 1..Len(aircraft) |-> Card(aircraft[i])]]

\* displayAircraft: the content written into aircraftGrid
DisplayAircraft(aircraft) ==
    IF Len(aircraft) = 0
    THEN EmptyState
    ELSE [kind |-> "cards", cards |-> [i \in 1..Len(aircraft) |-> Card(aircraft[i])]]

\* a filter that counts every record not retired
IsActiveUnlessRetired(a) == a.status # <<"r", "e", "t", "i", "r", "e", "d">>

\* a.status === 'active'
IsActive(a) == a.status = Active

\* aircraft.reduce((sum, a) => sum + a.total_seats, 0)
RECURSIVE Reduce(_, _)
Reduce(aircraft, sum) ==
    IF aircraft = <<>> THEN sum ELSE Reduce(Tail(aircraft), sum + Head(aircraft).total_seats)

\* three digits of a group after the first
Pad3(n) ==
    LET t == NatToStr(n)
    IN  IF Len(t) = 1 THEN <<"0", "0">> \o t ELSE IF Len(t) = 2 THEN <<"0">> \o t ELSE t

\* Number.prototype.toLocaleString for a natural number (en-US grouping)
RECURSIVE ToLocaleString(_)
ToLocaleString(n) ==
    IF n < 1000 THEN NatToStr(n)
    ELSE ToLocaleString(n \div 1000) \o <<",">> \o Pad3(n % 1000)

\* updateStats: the text written into the three stat elements
UpdateStats(aircraft) ==
    [totalAircraft |-> NatToStr(Len(aircraft)),
     activeAircraft |-> NatToStr(Len(SelectSeq(aircraft, IsActive))),
     totalSeats |-> ToLocaleString(Reduce(aircraft, 0))]

\* the grid holds a card, and so the buttons, of aircraft id
HasCard(id) ==
    aircraftGrid.kind = "cards"
    /\ \E i \in 1..Len(aircraftGrid.cards) : aircraftGrid.cards[i].id = id

\* loadAircraft, resumed by its response; aircraft is the list in the body
LoadAircraftResponse(q, r, aircraft) ==
    /\ Awaiting(q, "loadAircraft")
    /\ net' = Settle(net, q)
    /\ IF Ok(r) /\ r.json
       THEN /\ aircraftGrid' = DisplayAircraft(aircraft)
            /\ stats' = UpdateStats(aircraft)
       ELSE /\ aircraftGrid' = ErrorFragment
            /\ UNCHANGED stats
    /\ UNCHANGED <<ls, page, nav, token, btn, alertMsg, editingAircraftId, seats,
                   aircraft_number, totalSeatsCalc, aircraftModal, loadingOverlay,
                   profileVars>>

\* an openCreateModal that leaves the aircraft_number field as it finds it
OpenCreateModalKeepsField ==
    /\ page = AircraftPage
    /\ editingAircraftId' = NullId
    /\ seats' = EmptySeats
    /\ aircraft_number' = [aircraft_number EXCEPT !.value = <<>>]
    /\ totalSeatsCalc' = CalculateTotalSeats(EmptySeats)
    /\ aircraftModal' = [display |-> "block", title |-> "Add New Aircraft"]
    /\ UNCHANGED <<ls, pageVars, loadingOverlay>>
    /\ UNCHANGED <<fleetVars, profileVars>>

OpenCreateModal ==
    /\ page = AircraftPage
    /\ editingAircraftId' = NullId
    /\ seats' = EmptySeats
    /\ aircraft_number' = [value |-> <<>>, disabled |-> FALSE]
    /\ totalSeatsCalc' = CalculateTotalSeats(EmptySeats)
    /\ aircraftModal' = [display |-> "block", title |-> "Add New Aircraft"]
    /\ UNCHANGED <<ls, pageVars, loadingOverlay>>
    /\ UNCHANGED <<fleetVars, profileVars>>

\* the input event of a seat-count field
InputSeat(field, value) ==
    /\ page = AircraftPage
    /\ aircraftModal.display = "block"
    /\ seats' = [seats EXCEPT ![field] = value]
    /\ totalSeatsCalc' = CalculateTotalSeats(seats')
    /\ UNCHANGED <<ls, pageVars, editingAircraftId, aircraft_number, aircraftModal,
                   loadingOverlay>>
    /\ UNCHANGED <<fleetVars, profileVars>>

\* the user types into the aircraft_number field
InputNumber(value) ==
    /\ page = AircraftPage
    /\ aircraftModal.display = "block"
    /\ ~aircraft_number.disabled
    /\ aircraft_number' = [aircraft_number EXCEPT !.value = value]
    /\ UNCHANGED <<ls, pageVars, editingAircraftId, seats, totalSeatsCalc, aircraftModal,
                   loadingOverlay>>
    /\ UNCHANGED <<fleetVars, profileVars>>

EditAircraft(id) ==
    /\ page = AircraftPage
    /\ HasCard(id)
    /\ InFlight < MaxInFlight
    /\ net' = Issue(net, [Req("editAircraft", "GET", "/flights/aircraft/{id}", NoAuth,
                               NoBody, "") EXCEPT !.body = [id |-> id]])
    /\ UNCHANGED <<ls, page, nav, token, btn, alertMsg, aircraftVars, profileVars>>

EditAircraftResponse(q, r, aircraft) ==
    /\ Awaiting(q, "editAircraft")
    /\ aircraft \in AircraftRecords(q.body.id)
    /\ net' = Settle(net, q)
    /\ IF Ok(r) /\ r.json
       THEN /\ editingAircraftId' = q.body.id
            /\ aircraft_number' = [value |-> aircraft.aircraft_number, disabled |-> TRUE]
            /\ seats' = [economy_seats |-> NatToStr(aircraft.economy_seats),
                         business_seats |-> NatToStr(aircraft.business_seats),
                         first_class_seats |-> NatToStr(aircraft.first_class_seats)]
            /\ totalSeatsCalc' = CalculateTotalSeats(seats')
            /\ aircraftModal' = [display |-> "block", title |-> "Edit Aircraft"]
            /\ UNCHANGED alertMsg
       ELSE /\ alertMsg' = "Error loading aircraft details"
            /\ UNCHANGED <<editingAircraftId, aircraft_number, seats, totalSeatsCalc,
                           aircraftModal>>
    /\ UNCHANGED <<ls, page, nav, token, btn, loadingOverlay>>
    /\ UNCHANGED <<fleetVars, profileVars>>

\* a check that only refuses a cancelled or empty prompt
ChangeStatusRejectedEmptyOnly(newStatus) == newStatus.cancelled \/ newStatus.text = <<>>

\* !newStatus || !statuses.includes(newStatus.toLowerCase())
ChangeStatusRejected(newStatus) ==
    \/ newStatus.cancelled
    \/ newStatus.text = <<>>
    \/ ToLowerCase(newStatus.text) \notin statuses

ChangeStatus(id, newStatus) ==
    /\ page = AircraftPage
    /\ HasCard(id)
    /\ InFlight < MaxInFlight
    /\ IF ChangeStatusRejected(newStatus)
       THEN /\ alertMsg' = "Invalid status"
            /\ UNCHANGED <<net, loadingOverlay>>
       ELSE /\ loadingOverlay' = "flex"
            /\ net' = Issue(net, Req("changeStatus", "PUT", "/flights/aircraft/{id}",
                                      Bearer(token),
                                      [id |-> id, status |-> ToLowerCase(newStatus.text)],
                                      ""))
            /\ UNCHANGED alertMsg
    /\ UNCHANGED <<ls, page, nav, token, btn, editingAircraftId, seats, aircraft_number,
                   totalSeatsCalc, aircraftModal>>
    /\ UNCHANGED <<fleetVars, profileVars>>

ChangeStatusResponse(q, r) ==
    /\ Awaiting(q, "changeStatus")
    /\ IF Ok(r)
       THEN /\ alertMsg' = "Status updated successfully!"
            /\ net' = Issue(Settle(net, q), LoadAircraftRequest)
       ELSE /\ alertMsg' = "Error updating status"
            /\ net' = Settle(net, q)
    /\ loadingOverlay' = "none"
    /\ UNCHANGED <<ls, page, nav, token, btn, editingAircraftId, seats, aircraft_number,
                   totalSeatsCalc, aircraftModal>>
    /\ UNCHANGED <<fleetVars, profileVars>>

\* valid is the result of form.checkValidity()
SaveAircraft(valid) ==
    /\ page = AircraftPage
    /\ aircraftModal.display = "block"
    /\ InFlight < MaxInFlight
    /\ IF ~valid
       THEN UNCHANGED <<net, loadingOverlay>>
       ELSE LET economy == ParseInt(seats.economy_seats)
                business == ParseInt(seats.business_seats)
                first == ParseInt(seats.first_class_seats)
                aircraftData ==
                    [id |-> editingAircraftId,
                     total_seats |-> JSONNumber(Plus(Plus(economy, business), first))]
            IN  /\ loadingOverlay' = "flex"
                /\ net' = Issue(net,
                       IF editingAircraftId # NullId
                       THEN Req("saveAircraft", "PUT", "/flights/aircraft/{id}",
                                Bearer(token), aircraftData, "")
                       ELSE Req("saveAircraft", "POST", "/flights/aircraft",
                                Bearer(token), aircraftData, ""))
    /\ UNCHANGED <<ls, page, nav, token, btn, alertMsg, editingAircraftId, seats,
                   aircraft_number, totalSeatsCalc, aircraftModal>>
    /\ UNCHANGED <<fleetVars, profileVars>>

SaveAircraftResponse(q, r) ==
    /\ Awaiting(q, "saveAircraft")
    /\ IF Ok(r)
       THEN /\ alertMsg' = IF editingAircraftId # NullId
                           THEN "Aircraft updated successfully!"
                           ELSE "Aircraft created successfully!"
            /\ aircraftModal' = [aircraftModal EXCEPT !.display = "none"]
            /\ net' = Issue(Settle(net, q), LoadAircraftRequest)
       ELSE /\ alertMsg' = "Error: save"
            /\ net' = Settle(net, q)
            /\ UNCHANGED aircraftModal
    /\ loadingOverlay' = "none"
    /\ UNCHANGED <<ls, page, nav, token, btn, editingAircraftId, seats, aircraft_number,
                   totalSeatsCalc>>
    /\ UNCHANGED <<fleetVars, profileVars>>

\* window.onclick on the modal backdrop
CloseModal ==
    /\ page = AircraftPage
    /\ aircraftModal.display = "block"
    /\ aircraftModal' = [aircraftModal EXCEPT !.display = "none"]
    /\ UNCHANGED <<ls, pageVars, editingAircraftId, seats, aircraft_number,
                   totalSeatsCalc, loadingOverlay>>
    /\ UNCHANGED <<fleetVars, profileVars>>

\* logout() of the aircraft admin page
AircraftLogout ==
    /\ page = AircraftPage
    /\ ls' = RemoveSession(ls)
    /\ nav' = LoginPage
    /\ UNCHANGED <<page, token, btn, net, alertMsg, aircraftVars, profileVars>>

\* --------------------------------------------------------- specification
UrlTokens == {Null} \cup {Some(t) : t \in ResetTokens}

Respond(q, r) ==
    \/ \E t \in Tokens, n \in ServerNames : LoginResponse(q, r, t, n)
    \/ RegisterResponse(q, r)
    \/ ForgotResponse(q, r)
    \/ ResetResponse(q, r)
    \/ DashboardLoadProfileResponse(q, r)
    \/ LoadActivityLogsResponse(q, r)
    \/ \E profile_photo \in BOOLEAN, is_verified \in VerifiedAccounts :
          ProfileLoadProfileResponse(q, r, profile_photo, is_verified)
    \/ ProfileUpdateResponse(q, r)
    \/ UploadPhotoResponse(q, r)
    \/ DeletePhotoResponse(q, r)
    \/ LogoutResponse(q, r)
    \/ \E aircraft \in ListedAircraft : LoadAircraftResponse(q, r, aircraft)
    \/ \E id \in AircraftIds : \E a \in AircraftRecords(id) : EditAircraftResponse(q, r, a)
    \/ ChangeStatusResponse(q, r)
    \/ SaveAircraftResponse(q, r)

Next ==
    \/ \E p \in Pages, u \in UrlTokens : Visit(p, u)
    \/ Navigate
    \/ \E e \in EmailInputs, pw \in Passwords : LoginSubmit(e, pw)
    \/ \E n \in NameInputs, pw \in Passwords : RegisterSubmit(n, pw)
    \/ \E e \in EmailInputs : ForgotSubmit(e)
    \/ \E pw \in Passwords, cf \in ConfirmInputs : ResetSubmit(pw, cf)
    \/ \E n \in NameInputs, pw \in Passwords : ProfileSubmit(n, pw)
    \/ \E f \in Files : PhotoChange(f)
    \/ ReaderOnload
    \/ \E c \in BOOLEAN : DeletePhoto(c)
    \/ \E c \in BOOLEAN : Logout(c)
    \/ OpenCreateModal
    \/ \E f \in TypedSeatFields, v \in SeatInputs : InputSeat(f, v)
    \/ \E v \in NumberInputs : InputNumber(v)
    \/ \E id \in AircraftIds : EditAircraft(id)
    \/ \E id \in AircraftIds, s \in QuickPrompts : ChangeStatus(id, s)
    \/ \E v \in BOOLEAN : SaveAircraft(v)
    \/ CloseModal
    \/ AircraftLogout
    \/ \E q \in BagToSet(net), r \in Outcomes : Respond(q, r)

Spec == Init /\ [][Next]_vars

\* ------------------------------------------------- the aircraft list view
\* the list view of the aircraft page on every list the server may hold:
\* the page is loaded, its list request answered, and status changes
\* reload the list
NextFleet ==
    \/ \E p \in {LoginPage, AircraftPage} : Visit(p, Null)
    \/ Navigate
    \/ LoginSubmit(<<"e">>, <<"p">>)
    \/ \E id \in FleetIds, s \in PromptInputs : ChangeStatus(id, s)
    \/ \E q \in BagToSet(net), r \in Outcomes :
          \/ \E t \in Tokens, n \in ServerNames : LoginResponse(q, r, t, n)
          \/ \E aircraft \in FleetLists : LoadAircraftResponse(q, r, aircraft)
          \/ ChangeStatusResponse(q, r)

SpecFleet == Init /\ [][NextFleet]_vars

\* ------------------------------------------------- the aircraft form modal
\* the modal of the aircraft page over every aircraft of a list: the admin
\* opens it for a new aircraft or for any listed one, edits the number,
\* saves and closes, while the fetches of editAircraft complete in any order
NextModal ==
    \/ \E p \in {LoginPage, AircraftPage} : Visit(p, Null)
    \/ Navigate
    \/ LoginSubmit(<<"e">>, <<"p">>)
    \/ OpenCreateModal
    \/ \E v \in NumberInputs : InputNumber(v)
    \/ \E id \in FleetIds : EditAircraft(id)
    \/ SaveAircraft(TRUE)
    \/ CloseModal
    \/ \E q \in BagToSet(net), r \in Outcomes :
          \/ \E t \in Tokens, n \in ServerNames : LoginResponse(q, r, t, n)
          \/ \E aircraft \in FleetLists : LoadAircraftResponse(q, r, aircraft)
          \/ \E id \in FleetIds : \E a \in AircraftRecords(id) :
                EditAircraftResponse(q, r, a)
          \/ SaveAircraftResponse(q, r)

SpecModal == Init /\ [][NextModal]_vars

\* ------------------------------------- the profile of an unverified user
\* every pending request of the profile page ends in at most one more
\* loadProfile, so the alerts of the page stay within MaxAlerts
AlertRoom == verificationAlerts + BagCardinality(net) < MaxAlerts

\* the profile page of an account whose e-mail is not verified: the page is
\* loaded, the profile updated and photos uploaded
NextVerify ==
    \/ \E p \in {LoginPage, ProfilePage} : Visit(p, Null)
    \/ Navigate
    \/ LoginSubmit(<<"e">>, <<"p">>)
    \/ AlertRoom /\ ProfileSubmit(<<"a", "a">>, <<>>)
    \/ AlertRoom /\ \E f \in Files : PhotoChange(f)
    \/ ReaderOnload
    \/ \E q \in BagToSet(net), r \in Outcomes :
          \/ \E t \in Tokens, n \in ServerNames : LoginResponse(q, r, t, n)
          \/ DashboardLoadProfileResponse(q, r)
          \/ LoadActivityLogsResponse(q, r)
          \/ \E profile_photo \in BOOLEAN, is_verified \in UnverifiedAccounts :
                ProfileLoadProfileResponse(q, r, profile_photo, is_verified)
          \/ ProfileUpdateResponse(q, r)
          \/ UploadPhotoResponse(q, r)

SpecVerify == Init /\ [][NextVerify]_vars

\* ------------------------------------------------------------ a second tab
\* another tab of the same origin completes a logout: the shared
\* localStorage loses both keys
OtherTabLogout ==
    /\ ls # StorageEmpty
    /\ ls' = RemoveSession(ls)
    /\ UNCHANGED <<pageVars, aircraftVars, profileVars>>

NextTabs ==
    \/ Next
    \/ OtherTabLogout

SpecTabs == Init /\ [][NextTabs]_vars

\* ------------------------------------------------------------- scheduling
\* the request of kind k that is pending gets its response or network error
Answer(k) == \E q \in BagToSet(net), r \in Outcomes : q.kind = k /\ Respond(q, r)

SubmitKinds == {"login", "register", "forgot", "reset", "profile.update"}

\* every fetch of a form handler settles, and an assigned
\* window.location.href is committed by the browser
Fairness ==
    /\ WF_vars(Navigate)
    /\ \A k \in SubmitKinds : WF_vars(Answer(k))

\* the pages that have a submit control, and the pages they lead to
FormPages == Pages \ {AircraftPage}

NextForms ==
    \/ \E p \in FormPages, u \in UrlTokens : Visit(p, u)
    \/ Navigate
    \/ \E e \in EmailInputs, pw \in Passwords : LoginSubmit(e, pw)
    \/ \E n \in NameInputs, pw \in Passwords : RegisterSubmit(n, pw)
    \/ \E e \in EmailInputs : ForgotSubmit(e)
    \/ \E pw \in Passwords, cf \in ConfirmInputs : ResetSubmit(pw, cf)
    \/ \E n \in NameInputs, pw \in Passwords : ProfileSubmit(n, pw)
    \/ \E f \in Files : PhotoChange(f)
    \/ ReaderOnload
    \/ \E c \in BOOLEAN : DeletePhoto(c)
    \/ \E c \in BOOLEAN : Logout(c)
    \/ \E q \in BagToSet(net), r \in Outcomes : Respond(q, r)

SpecLive == Init /\ [][NextForms]_vars /\ Fairness

\* ----------------------------------------------------------- properties
\* the requests a step issues
NewRequests == {q \in BagToSet(net') : CopiesIn(q, net') > CopiesIn(q, net)}

NoRequestIssued == NewRequests = {}

\* the step takes request q out of the pending ones, as its response does
Settled(q) == CopiesIn(q, net') < CopiesIn(q, net)

Is401(r) == ~r.err /\ r.status = 401

C1Step ==
    \A q \in BagToSet(net), r \in Outcomes :
        (q.auth.has /\ Is401(r) /\ Respond(q, r))
        => (~ls'.access_token.has /\ ~ls'.user.has /\ nav' = LoginPage)

\* C1: every 401 answer to a request that carries the Authorization header
\* removes both session keys and navigates to /login.
C1AllAuthenticated401Expire == [][C1Step]_vars

\* C2: between handler steps 'access_token' is stored exactly when 'user' is.
C2TokenIffUser == ls.access_token.has <=> ls.user.has

\* a session was stored by a login and later rewritten by a profile update
C2Witness ==
    /\ page = ProfilePage
    /\ alertMsg = "Profile updated successfully!"
    /\ ls.access_token.has
    /\ ls.user.has

SubmitsPassword(pw) ==
    \/ \E n \in NameInputs : RegisterSubmit(n, pw)
    \/ \E cf \in ConfirmInputs : ResetSubmit(pw, cf)
    \/ \E n \in NameInputs : ProfileSubmit(n, pw)

C3ClaimStep ==
    page \in {RegisterPage, ResetPage, ProfilePage} =>
        \A pw \in ConfirmInputs :
            (Len(pw) < 6 /\ SubmitsPassword(pw)) => NoRequestIssued

\* C3 as stated: on the register, reset-password and profile forms every
\* password shorter than 6 characters, the empty one included, ends the
\* submit handler without a request.
C3ShortPasswordNeverSubmits == [][C3ClaimStep]_vars

C3AmendedStep ==
    (page \in {RegisterPage, ResetPage, ProfilePage} /\ ~NoRequestIssued) =>
        \A pw \in ConfirmInputs :
            Len(pw) < 6 =>
                /\ (\E n \in NameInputs : RegisterSubmit(n, pw)) => NoRequestIssued
                /\ (\E cf \in ConfirmInputs : ResetSubmit(pw, cf)) => NoRequestIssued
                /\ (\E n \in NameInputs : ProfileSubmit(n, pw)) =>
                      IF pw # <<>> THEN NoRequestIssued
                      ELSE \A q \in NewRequests : ~q.body.password.has

\* C3 amended: register and reset-password block every password shorter than
\* 6 characters; the profile form blocks every non-empty one, and with the
\* password left empty it may submit, sending no password at all.
C3ShortPasswordBlocked == [][C3AmendedStep]_vars

\* the profile form has just refused a short password and sent nothing
C3Witness ==
    /\ page = ProfilePage
    /\ alertMsg = "Password must be at least 6 characters long!"
    /\ ~btn.disabled
    /\ \A q \in BagToSet(net) : q.kind # "profile.update"

C4Step ==
    page = ResetPage =>
        \A pw \in ConfirmInputs, cf \in ConfirmInputs :
            (pw # cf /\ ResetSubmit(pw, cf))
            => \A q \in NewRequests : q.url # "/api/reset-password"

\* C4: on the reset-password form no request to /api/reset-password is
\* issued when password and confirmation differ, whatever their lengths.
C4MismatchNeverSubmits == [][C4Step]_vars

\* the reset form has just refused a mismatching pair and sent nothing
C4Witness ==
    /\ page = ResetPage
    /\ alertMsg = "Passwords do not match!"
    /\ ~btn.disabled
    /\ net = EmptyBag

\* a seat field read the way the total is meant: empty or unparsable is 0
SeatCount(field) == IF ParseInt(field).nan THEN 0 ELSE ParseInt(field).val

C5Step ==
    page = AircraftPage =>
        \A valid \in BOOLEAN :
            SaveAircraft(valid) =>
                \A q \in NewRequests :
                    /\ q.body.total_seats =
                          [null |-> FALSE,
                           val |-> SeatCount(seats.economy_seats)
                                   + SeatCount(seats.business_seats)
                                   + SeatCount(seats.first_class_seats)]
                    /\ q.body.total_seats = JSONNumber(totalSeatsCalc)

\* C5: the total_seats saveAircraft sends is the sum of the three seat
\* fields, an empty or unparsable field counting as 0, and is the total
\* calculateTotalSeats displays for the same fields.
C5TotalSeatsIsSum == [][C5Step]_vars

CaseInsensitiveEqual(a, b) ==
    Len(a) = Len(b) /\ \A k \in 1..Len(a) : LowerChar(a[k]) = LowerChar(b[k])

NotAStatus(input) ==
    \/ input.cancelled
    \/ input.text = <<>>
    \/ ~\E st \in statuses : CaseInsensitiveEqual(input.text, st)

C6Step ==
    page = AircraftPage =>
        \A id \in FleetIds, input \in PromptInputs :
            ChangeStatus(id, input) =>
                /\ NotAStatus(input) => NoRequestIssued
                /\ \A q \in NewRequests :
                      /\ q.method = "PUT"
                      /\ q.body.status = ToLowerCase(input.text)
                      /\ q.body.status \in statuses

\* C6: changeStatus sends nothing for a cancelled, empty or unknown status,
\* and what it sends is a PUT whose status is the lower-cased input, one of
\* active, maintenance, retired.
C6OnlyKnownStatusSent == [][C6Step]_vars

\* an upper-case RETIRED went out lower-cased, and a later prompt was refused
C6Witness ==
    /\ page = AircraftPage
    /\ alertMsg = "Invalid status"
    /\ \E q \in BagToSet(net) :
          q.kind = "changeStatus" /\ q.body.status = <<"r", "e", "t", "i", "r", "e", "d">>

\* C7: a protected page loaded without a stored token sends no request
\* that carries an Authorization header.
C7GuardAbortsPage ==
    (page \in ProtectedPages /\ ~token.has)
    => \A q \in BagToSet(net) : ~q.auth.has

FormKinds == {"login", "register", "forgot", "reset", "profile.update", "saveAircraft"}

\* C8: no form has two of its submissions in flight at once.
C8OneSubmissionPerForm ==
    \A k \in FormKinds :
        LET pending == {q \in BagToSet(net) : q.kind = k}
        IN  \/ pending = {}
            \/ Cardinality(pending) = 1 /\ \A q \in pending : CopiesIn(q, net) = 1

ControlForms == {"login", "register", "forgot", "reset", "profile.update"}

\* a non-2xx answer, an unparsable body, or a network error
Failure(r) == r.err \/ ~r.json \/ ~Ok(r)

C9Step ==
    /\ \A q \in BagToSet(net) :
          (/\ q.kind \in ControlForms
           /\ btn'.disabled \/ btn'.text # InitialCaption \/ btn'.text # q.originalText)
          => \A r \in Outcomes : Failure(r) => ~Respond(q, r)
    /\ (~btn.disabled /\ btn'.disabled) => btn.text = InitialCaption

\* C9: a failed submission of the login, register, forgot-password,
\* reset-password or profile form leaves the submit control enabled with the
\* caption it had before the submission (the caption of the idle control).
C9FailureRestoresControl == [][C9Step]_vars

\* a login was refused by the server and the control is idle again
C9Witness ==
    /\ page = LoginPage
    /\ alertMsg = "Error: login"
    /\ btn = Idle
    /\ net = EmptyBag

Blocked == btn' = btn /\ ~btn'.disabled /\ net' = net

\* names and e-mails a local rule refuses
ShortNames == {n \in NameInputs : Len(Trim(n)) < 2}
BlankEmails == {e \in EmailInputs : Trim(e) = <<>>}

C10Step ==
    \/ Blocked
    \/ btn.disabled
    \/ /\ page = RegisterPage =>
              \A n \in ShortNames, pw \in Passwords : ~RegisterSubmit(n, pw)
       /\ page = ProfilePage =>
              \A n \in ShortNames, pw \in Passwords :
                  Trim(n) # <<>> => ~ProfileSubmit(n, pw)
       /\ page = ForgotPage =>
              \A e \in BlankEmails : ~ForgotSubmit(e)
       /\ page = LoginPage =>
              \A e \in EmailInputs, pw \in Passwords :
                  (Trim(e) = <<>> \/ pw = <<>>) => ~LoginSubmit(e, pw)

\* C10: a submit refused by a local rule (name shorter than 2 characters on
\* registration or on a profile update that gives a name, empty e-mail on
\* forgot-password, empty e-mail or password on login; names and e-mails as
\* trimmed by the handler) leaves the control enabled, its caption unchanged
\* and sends nothing: a step that is not Blocked, or starts from a disabled
\* control, is no such submit.
C10ValidationFailureBlocks == [][C10Step]_vars

\* the register form has just refused a one-character name
C10Witness ==
    /\ page = RegisterPage
    /\ alertMsg = "Please enter a valid full name!"
    /\ btn = Idle
    /\ net = EmptyBag

\* the step is one of the paths the storage contract names: login success,
\* a logout, or a 401 expiry handler
SessionPath ==
    \/ \E q \in BagToSet(net), r \in Outcomes, t \in Tokens, n \in ServerNames :
          Ok(r) /\ LoginResponse(q, r, t, n)
    \/ \E q \in BagToSet(net), r \in Outcomes : LogoutResponse(q, r)
    \/ AircraftLogout
    \/ \E q \in BagToSet(net), r \in Outcomes : Is401(r) /\ Respond(q, r)

C11ClaimStep == ls' # ls => SessionPath

\* C11 as stated: 'access_token' and 'user' are written or removed only by
\* the login-success path, the logout paths and the 401 expiry handlers;
\* every other handler step, a successful profile update included, leaves
\* both keys unchanged.
C11OnlySessionPathsWrite == [][C11ClaimStep]_vars

\* a successful profile update that rewrites a 'user' key already present
ProfileRewrite ==
    /\ \E q \in BagToSet(net), r \in Outcomes :
          Ok(r) /\ r.json /\ ProfileUpdateResponse(q, r)
    /\ ls'.access_token = ls.access_token
    /\ ls.user.has
    /\ ls'.user.has

C11AmendedStep == ls' # ls => (SessionPath \/ ProfileRewrite)

\* C11 amended: the keys change only on login success, on a logout, in a 401
\* expiry handler, and on a successful profile update, which rewrites a
\* 'user' key that is present and neither creates nor removes a key nor
\* touches 'access_token'.
C11OnlySessionPathsOrProfileRewrite == [][C11AmendedStep]_vars

\* a profile update has replaced the full_name the login had stored
C11Witness ==
    /\ page = ProfilePage
    /\ alertMsg = "Profile updated successfully!"
    /\ ls.access_token.has
    /\ ls.user.has
    /\ JSONParse(ls.user.v).full_name \notin ServerNames

\* a network failure, or an answer whose status is neither 2xx nor 401
FailedNot401(r) == r.err \/ (r.status \notin 200..299 /\ r.status # 401)

C12Step ==
    (ls' # ls \/ nav' # nav) =>
        \A q \in BagToSet(net), r \in Outcomes :
            (q.kind \in FormKinds /\ FailedNot401(r)) => ~Respond(q, r)

\* C12: when a submission of the login, register, forgot-password,
\* reset-password, profile or aircraft form ends with a network failure or
\* with a non-2xx status other than 401, its handler leaves both
\* localStorage keys as they were and assigns no navigation: a step that
\* changes a key or the navigation is no such response.
C12FailureKeepsSessionAndPage == [][C12Step]_vars

\* a profile update was refused by the server: session kept, page kept
C12Witness ==
    /\ page = ProfilePage
    /\ alertMsg = "Error: update"
    /\ ls.access_token.has
    /\ ls.user.has
    /\ nav = NoNav

C16Step ==
    \A q \in BagToSet(net), r \in Outcomes :
        (Is401(r) /\ ProfileUpdateResponse(q, r))
        => (~ls'.access_token.has /\ ~ls'.user.has /\ nav' = LoginPage)

\* C16: the profile-update handler treats every 401 answer as session
\* expiry, whatever its body (empty and non-JSON bodies included): both keys
\* are removed and the page navigates to /login.
C16Every401ExpiresOnUpdate == [][C16Step]_vars

C17Step ==
    page \in {DashboardPage, ProfilePage} =>
        /\ \A q \in BagToSet(net), r \in Outcomes :
              (q.kind = "logout" /\ Settled(q) /\ LogoutResponse(q, r))
              => (~ls'.access_token.has /\ ~ls'.user.has /\ nav' = LandingPage)
        /\ Logout(FALSE) => (NoRequestIssued /\ ls' = ls)

\* C17: on the dashboard and profile pages a confirmed logout ends, when the
\* POST /api/logout settles with a 2xx, a non-2xx or a network error alike,
\* with both localStorage keys removed and a navigation to '/'; a declined
\* confirmation issues no request and leaves both keys as they were.
C17LogoutAlwaysClears == [][C17Step]_vars

\* a page loaded with a session has completed a logout
C17Witness ==
    /\ page \in {DashboardPage, ProfilePage}
    /\ token.has
    /\ alertMsg = "Logged out successfully!"
    /\ ~ls.access_token.has
    /\ ~ls.user.has
    /\ nav = LandingPage

C18Step ==
    page = LoginPage =>
        /\ \A q \in BagToSet(net), r \in Outcomes, t \in Tokens, n \in ServerNames :
              LoginResponse(q, r, t, n) =>
                  IF ~r.err /\ r.status \in 200..299 /\ r.json
                  THEN /\ ls'.access_token = Some(t)
                       /\ ls'.user = Some(JSONStringify([full_name |-> n]))
                       /\ nav' = DashboardPage
                  ELSE ls' = ls /\ nav' = nav
        /\ \A e \in EmailInputs, pw \in Passwords : LoginSubmit(e, pw) => ls' = ls

\* C18: the login handler leaves both keys alone when it submits; the step
\* that receives a 2xx answer with a parsable body writes 'access_token' and
\* 'user' together and assigns the navigation to /dashboard; a non-2xx
\* answer, an unparsable body or a network error writes neither key.
C18LoginWritesBothOn2xxOnly == [][C18Step]_vars

\* a login has just succeeded: both keys stored, /dashboard pending
C18Witness ==
    /\ page = LoginPage
    /\ alertMsg = "Login successful!"
    /\ ls.access_token.has
    /\ ls.user.has
    /\ JSONParse(ls.user.v).full_name \in ServerNames
    /\ nav = DashboardPage

C19Step ==
    \A q \in NewRequests : q.auth.has => q.auth.bearer = ls.access_token

\* C19: every request that carries an Authorization header carries the
\* token localStorage holds when the request is issued; once the stored
\* session was removed or replaced (401 handler, logout, login in another
\* tab) a loaded page sends no request with the earlier token.
C19RequestsCarryStoredToken == [][C19Step]_vars

\* the number a stat element shows, read back from its text
RECURSIVE ShownNumber(_, _)
ShownNumber(text, acc) ==
    IF text = <<>> THEN acc
    ELSE IF Head(text) \in Digits
    THEN ShownNumber(Tail(text), 10 * acc + DigitVal(Head(text)))
    ELSE ShownNumber(Tail(text), acc)

\* the sum of total_seats over the records of a list
RECURSIVE SeatSum(_)
SeatSum(idx) ==
    IF idx = {} THEN 0
    ELSE LET i == CHOOSE j \in idx : TRUE
         IN  aircraftGrid'.cards[i].total_seats + SeatSum(idx \ {i})

\* the answers loadAircraft renders a list from
Listings == {r \in Outcomes : ~r.err /\ r.status \in 200..299 /\ r.json}

\* the step takes a list request out of the pending ones
ListRequestSettled ==
    CopiesIn(LoadAircraftRequest, net') < CopiesIn(LoadAircraftRequest, net)

C13Step ==
    ListRequestSettled =>
      \A r \in Listings, aircraft \in FleetLists :
        (/\ aircraftGrid' = DisplayAircraft(aircraft)
         /\ LoadAircraftResponse(LoadAircraftRequest, r, aircraft)) =>
            /\ ShownNumber(stats'.totalAircraft, 0) = Len(aircraft)
            /\ ShownNumber(stats'.activeAircraft, 0) =
                  Cardinality({i \in 1..Len(aircraft) : aircraft[i].status = Active})
            /\ ShownNumber(stats'.totalSeats, 0) =
                  SeatSum({i \in 1..Len(aircraft) : aircraft[i].total_seats > 0})
            /\ stats'.totalAircraft = NatToStr(Len(aircraft))

\* C13: for every list loadAircraft passes to updateStats the total shown is
\* the length of the list, the active count shown is the number of records
\* whose status is exactly 'active', and the seats shown are the sum of the
\* records' total_seats (written with thousands separators).
C13StatsMatchList == [][C13Step]_vars

\* two records, one of them in maintenance, with 1,206 seats between them
C13Witness ==
    /\ page = AircraftPage
    /\ aircraftGrid.kind = "cards"
    /\ stats.totalAircraft = <<"2">>
    /\ stats.activeAircraft = <<"1">>
    /\ stats.totalSeats = <<"1", ",", "2", "0", "6">>

C14Step ==
    ListRequestSettled =>
        \A r \in Outcomes, aircraft \in FleetLists :
            LoadAircraftResponse(LoadAircraftRequest, r, aircraft) =>
                /\ aircraftGrid'.kind \in {"empty-state", "error", "cards"}
                /\ aircraftGrid'.kind = "cards" => aircraftGrid'.cards # <<>>
                /\ IF r \in Listings
                   THEN IF aircraft = <<>>
                        THEN aircraftGrid'.kind = "empty-state"
                        ELSE /\ aircraftGrid'.kind = "cards"
                             /\ Len(aircraftGrid'.cards) = Len(aircraft)
                             /\ \A i \in 1..Len(aircraft) :
                                   aircraftGrid'.cards[i].id = aircraft[i].id
                   ELSE aircraftGrid'.kind = "error"

\* C14: when loadAircraft completes the aircraft grid is never blank: an
\* empty list leaves the empty-state fragment, a non-2xx answer, an
\* unparsable body or a network error leaves the error fragment, and a
\* non-empty list leaves exactly one card per record, in the list's order.
C14GridNeverBlank == [][C14Step]_vars

\* a reload failed after a list of two had been shown: the grid holds the
\* error fragment while the stats still show the two records
C14Witness ==
    /\ page = AircraftPage
    /\ aircraftGrid = ErrorFragment
    /\ stats.totalAircraft = <<"2">>
    /\ net = EmptyBag

\* the modal was last opened by editAircraft: it shows the edit title
OpenedByEdit == aircraftModal.title = "Edit Aircraft"

C15Step ==
    page = AircraftPage =>
        /\ \A valid \in BOOLEAN :
              SaveAircraft(valid) =>
                  \A q \in NewRequests :
                      IF OpenedByEdit
                      THEN /\ q.method = "PUT"
                           /\ q.url = "/flights/aircraft/{id}"
                           /\ q.body.id \in AircraftIds
                           /\ \E a \in AircraftRecords(q.body.id) :
                                 a.aircraft_number = aircraft_number.value
                      ELSE /\ q.method = "POST"
                           /\ q.url = "/flights/aircraft"
        /\ \A q \in BagToSet(net), r \in Outcomes :
              (Ok(r) /\ SaveAircraftResponse(q, r)) =>
                  alertMsg' = IF q.method = "PUT"
                              THEN "Aircraft updated successfully!"
                              ELSE "Aircraft created successfully!"

\* C15: however openCreateModal, editAircraft (its fetch possibly pending)
\* and saveAircraft interleave, saveAircraft sends PUT /flights/aircraft/{id}
\* exactly when the modal was last opened by editAircraft(id) and POST
\* /flights/aircraft exactly when it was last opened by openCreateModal, and
\* the success message names the operation of the request that was sent.
C15SaveMatchesLastOpening == [][C15Step]_vars

\* an upload was refused, and the reload it triggered and the preview load
\* of the file have both been delivered
UploadFailedAndSettled ==
    /\ page = ProfilePage
    /\ alertMsg \in {"Error: upload", "Upload error"}
    /\ reader = 0
    /\ \A q \in BagToSet(net) : q.kind \notin {"upload-photo", "profile.loadProfile"}

\* C20: once an upload has failed and both the loadProfile it triggered and
\* the FileReader preview callback have completed, in either order, the
\* profile page does not show the rejected file.
C20RejectedFileNotShown == UploadFailedAndSettled => currentPhoto # "file"

\* C21: when every request of a form is eventually answered (by a response
\* or a network error) and an assigned navigation is committed, a submit
\* control that was disabled by a submission is eventually enabled with its
\* idle caption again, on the same page or on the page navigated to: no
\* behaviour keeps the control disabled forever.
C21SubmissionEventuallyLeaves == btn.disabled ~> (btn = Idle)

\* a registration is in the submitting state, its request awaiting an answer
C21Witness ==
    /\ page = RegisterPage
    /\ btn = Submitting("Creating Account...")
    /\ nav = NoNav
    /\ \E q \in BagToSet(net) : q.kind = "register"

\* C22: on the aircraft admin page, however openCreateModal and editAircraft
\* calls interleave and in whatever order the fetches of editAircraft
\* complete, editingAircraftId is non-null exactly when the aircraft_number
\* field is disabled, and the disabled field holds the aircraft_number of the
\* record fetched for editingAircraftId.
C22EditingIffNumberDisabled ==
    page = AircraftPage =>
        /\ editingAircraftId # NullId <=> aircraft_number.disabled
        /\ editingAircraftId # NullId =>
              \E a \in AircraftRecords(editingAircraftId) :
                  aircraft_number.value = a.aircraft_number

\* the fetch for aircraft 2 completed first and filled the form, while the
\* fetch editAircraft(1) issued is still pending
C22Witness ==
    /\ page = AircraftPage
    /\ editingAircraftId = 2
    /\ aircraft_number = [value |-> <<"S", "2">>, disabled |-> TRUE]
    /\ aircraftModal = [display |-> "block", title |-> "Edit Aircraft"]
    /\ \E q \in BagToSet(net) : q.kind = "editAircraft" /\ q.body.id = 1

\* C23: on the profile page of an unverified user, after any sequence of
\* page load, successful profile updates and failed photo uploads, at most
\* one e-mail verification alert, and so at most one element with id
\* 'resendVerification', is present in the page.
C23AtMostOneVerificationAlert ==
    (page = ProfilePage /\ token.has) => verificationAlerts <= 1

====
